---- MODULE Spec2Model ----
(***************************************************************************)
(* The dashboard of src/app.py: one render of main() over the SQLite store  *)
(* (store check, KPI row, the four tabs), with the forecasting tab's        *)
(* reconciliation, baseline and shock detection computed as the code        *)
(* computes them; and the ingestion of src/scripts/ingest_data.py that      *)
(* writes that store (geolocation cleaning, table loads, lookup indexes).   *)
(*                                                                          *)
(* Floating-point values are records: Num(n, d) is the exact rational n/d   *)
(* (d > 0), NaN is pandas' NaN / SQL NULL / NaT, PosInf and NegInf are the  *)
(* results of a float division by zero.  Dates are day numbers.  The        *)
(* coordinates of the geolocation table are float64 values F64(neg, mag),   *)
(* added and divided with float64 rounding.                                 *)
(***************************************************************************)
EXTENDS Integers, Sequences, FiniteSets, TLC

VARIABLES
    dbDir,              \* the directory of DB_PATH exists: sqlite3.connect can open or create the file
    dbFile,             \* os.path.exists(DB_PATH)
    tables,             \* the store: table name -> [exists, rows]
    revenue,            \* the rows forecast_query returns when both of its tables hold rows
    m_predict,          \* what the fitted Prophet model predicts: [hist, future]
    connCache,          \* st.cache_resource of get_connection: "unset", "conn" or "None"
    pc,                 \* position of the render in main()
    msgs,               \* the inline messages of this render, in order
    panels,             \* the panels whose body has run in this render
    health,             \* tab4's health list
    tab1,               \* the forecasting panel's values (df_forecast, df_model, ...)
    ingest              \* run_ingestion of scripts/ingest_data.py: its position and what it stored

vars == <<dbDir, dbFile, tables, revenue, m_predict, connCache, pc, msgs, panels, health, tab1, ingest>>

----------------------------------------------------------------------------
(* Float values *)

Num(n, d) == [k |-> "num", n |-> n, d |-> d]
Int2Num(i) == Num(i, 1)
NaN == [k |-> "nan"]
PosInf == [k |-> "+inf"]
NegInf == [k |-> "-inf"]

IsNum(x) == x.k = "num"
IsNaN(x) == x.k = "nan"

\* exact comparisons of two numbers (denominators are positive)
NumEq(a, b) == a.n * b.d = b.n * a.d
NumLt(a, b) == a.n * b.d < b.n * a.d
NumAdd(a, b) == Num(a.n * b.d + b.n * a.d, a.d * b.d)
NumSub(a, b) == Num(a.n * b.d - b.n * a.d, a.d * b.d)

\* float division: x / 0.0 is +-inf, 0.0 / 0.0 and anything with NaN is NaN
FDiv(a, b) ==
    IF ~IsNum(a) \/ ~IsNum(b) THEN NaN
    ELSE IF b.n = 0 THEN (IF a.n = 0 THEN NaN ELSE IF a.n > 0 THEN PosInf ELSE NegInf)
    ELSE IF b.n > 0 THEN Num(a.n * b.d, a.d * b.n)
    ELSE Num(-(a.n * b.d), a.d * (-b.n))

\* Series.clip(lower=0), app.py:109
Clip0(x) == IF x.n < 0 THEN Num(0, x.d) ELSE x

----------------------------------------------------------------------------
(* Program constants *)

TrendWindow == 7
BaselineWindow == 14
CutoffDays == 90
ShockThreshold == 3

Tables == <<"orders", "order_items", "customers", "geolocation", "reviews">>

----------------------------------------------------------------------------
(* Tab 1: preprocessing, app.py:74-76 *)

NumMul(a, b) == Num(a.n * b.n, a.d * b.d)

\* DataFrame.dropna(): rows with a NULL amount are dropped
DropNa(rows) == SelectSeq(rows, LAMBDA r : ~IsNaN(r.y))

\* DataFrame.drop_duplicates(subset=['ds']): the first row of each date is kept
DropDuplicates(rows) ==
    LET indexed == [i \in 1..Len(rows) |-> [idx |-> i, row |-> rows[i]]]
        kept == SelectSeq(indexed,
                    LAMBDA e : \A j \in 1..(e.idx - 1) : rows[j].ds # e.row.ds)
    IN  [i \in 1..Len(kept) |-> kept[i].row]

\* sum of column y over rows lo..hi
RECURSIVE SumY(_, _, _)
SumY(df, lo, hi) ==
    IF lo > hi THEN Num(0, 1) ELSE NumAdd(SumY(df, lo, hi - 1), df[hi].y)

\* variant: the mean of all rows up to i, whatever the window
RollingMeanWholeSeries(df, i, w, minp) ==
    IF i < minp THEN NaN ELSE LET s == SumY(df, 1, i) IN Num(s.n, s.d * i)

\* Series.rolling(w, min_periods=minp).mean() at row i: the mean of the last w rows
\* up to i (fewer at the start), NaN while fewer than minp rows are in the window
RollingMean(df, i, w, minp) ==
    LET lo  == IF i - w + 1 < 1 THEN 1 ELSE i - w + 1
        cnt == i - lo + 1
    IN  IF cnt < minp THEN NaN
        ELSE LET s == SumY(df, lo, i) IN Num(s.n, s.d * cnt)

\* df_forecast after lines 74-76: cleaned rows with the 7D_Trend column
Preprocess(rows) ==
    LET clean == DropDuplicates(DropNa(rows))
    IN  [i \in 1..Len(clean) |->
            [ds |-> clean[i].ds, y |-> clean[i].y,
             Trend7D |-> RollingMean(clean, i, TrendWindow, 1)]]

\* df['ds'].max()
MaxDs(df) ==
    CHOOSE d \in {df[i].ds : i \in 1..Len(df)} : \A i \in 1..Len(df) : df[i].ds <= d

----------------------------------------------------------------------------
(* Tab 1: model training, app.py:78-94 *)

\* df_model: the rows with ds >= max(ds) - 90 days, columns ds and y
DfModel(df) ==
    IF df = <<>> THEN <<>>
    ELSE LET recent_cutoff == MaxDs(df) - CutoffDays
             kept == SelectSeq(df, LAMBDA r : r.ds >= recent_cutoff)
         IN  [i \in 1..Len(kept) |-> [ds |-> kept[i].ds, y |-> kept[i].y]]

\* Prophet.fit raises ValueError on fewer than 2 rows
FitRaises(df_model) == Len(df_model) < 2

\* m.predict(m.make_future_dataframe(...)): one row per history date, then one row
\* per following day; the values are the fitted model's (m_predict), the number of
\* future rows is Len(oracle.future)
Predict(df_model, oracle) ==
    LET nh == Len(df_model)
        last == df_model[nh].ds
    IN  [i \in 1..(nh + Len(oracle.future)) |->
            IF i <= nh
            THEN [ds |-> df_model[i].ds, yhat |-> oracle.hist[i].yhat,
                  yhat_lower |-> oracle.hist[i].yhat_lower,
                  yhat_upper |-> oracle.hist[i].yhat_upper]
            ELSE [ds |-> last + (i - nh), yhat |-> oracle.future[i - nh].yhat,
                  yhat_lower |-> oracle.future[i - nh].yhat_lower,
                  yhat_upper |-> oracle.future[i - nh].yhat_upper]]

----------------------------------------------------------------------------
(* Tab 1: reconciliation, app.py:96-120 *)

\* forecast[forecast['ds'] > last_actual_ds]
FutureOnly(forecast, last_actual_ds) ==
    SelectSeq(forecast, LAMBDA r : r.ds > last_actual_ds)

\* variant: anchored to the last amount instead of the trend
LastTrendValueLastY(df) == df[Len(df)].y

\* the value the forecast is anchored to: df_forecast['7D_Trend'].iloc[-1]
LastTrendValue(df) == df[Len(df)].Trend7D

\* vertical_offset = last_trend_value - first_predicted_y
VerticalOffset(future_only, last_trend_value) ==
    NumSub(last_trend_value, future_only[1].yhat)

\* future_only with the three *_final columns (lines 107-109)
FutureFinal(future_only, last_trend_value) ==
    LET vertical_offset == VerticalOffset(future_only, last_trend_value)
    IN  [i \in 1..Len(future_only) |->
            [ds |-> future_only[i].ds,
             yhat |-> future_only[i].yhat,
             yhat_final |-> Clip0(NumAdd(future_only[i].yhat, vertical_offset)),
             yhat_lower_final |-> Clip0(NumAdd(future_only[i].yhat_lower, vertical_offset)),
             yhat_upper_final |-> Clip0(NumAdd(future_only[i].yhat_upper, vertical_offset))]]

\* bridge_point (lines 112-117)
BridgePoint(last_actual_ds, last_trend_value) ==
    [ds |-> last_actual_ds, yhat_final |-> last_trend_value,
     yhat_lower_final |-> last_trend_value, yhat_upper_final |-> last_trend_value]

\* variant: the bridge point is prepended even to an empty future
ForecastConnectedAlwaysBridge(future_only, last_actual_ds, last_trend_value) ==
    <<BridgePoint(last_actual_ds, last_trend_value)>> \o
    (IF future_only # <<>>
     THEN LET ff == FutureFinal(future_only, last_trend_value)
          IN  [i \in 1..Len(ff) |->
                [ds |-> ff[i].ds, yhat_final |-> ff[i].yhat_final,
                 yhat_lower_final |-> ff[i].yhat_lower_final,
                 yhat_upper_final |-> ff[i].yhat_upper_final]]
     ELSE <<>>)

\* forecast_connected (lines 102-120)
ForecastConnected(future_only, last_actual_ds, last_trend_value) ==
    IF future_only # <<>>
    THEN LET ff == FutureFinal(future_only, last_trend_value)
         IN  <<BridgePoint(last_actual_ds, last_trend_value)>> \o
             [i \in 1..Len(ff) |->
                [ds |-> ff[i].ds, yhat_final |-> ff[i].yhat_final,
                 yhat_lower_final |-> ff[i].yhat_lower_final,
                 yhat_upper_final |-> ff[i].yhat_upper_final]]
    ELSE <<>>

----------------------------------------------------------------------------
(* Tab 1: baseline and shock detection, app.py:122-126 *)

\* rolling_mean = df_forecast['y'].rolling(14).mean().iloc[-1]
RollingBaseline(df) == RollingMean(df, Len(df), BaselineWindow, BaselineWindow)

\* forecast yhat of date ds, NaN when the forecast has no row of that date
\* (the left merge of line 124)
YhatOn(forecast, ds) ==
    IF \E j \in 1..Len(forecast) : forecast[j].ds = ds
    THEN forecast[CHOOSE j \in 1..Len(forecast) : forecast[j].ds = ds].yhat
    ELSE NaN

\* merged with its residual column (lines 124-125)
Merged(df, forecast) ==
    [i \in 1..Len(df) |->
        LET yhat == YhatOn(forecast, df[i].ds)
        IN  [ds |-> df[i].ds, y |-> df[i].y, yhat |-> yhat,
             residual |-> IF IsNaN(yhat) THEN NaN ELSE NumSub(df[i].y, yhat)]]

\* the non-NaN residuals, in order
Residuals(merged) ==
    LET kept == SelectSeq(merged, LAMBDA r : ~IsNaN(r.residual))
    IN  [i \in 1..Len(kept) |-> kept[i].residual]

RECURSIVE SumSeq(_)
SumSeq(xs) ==
    IF xs = <<>> THEN Num(0, 1) ELSE NumAdd(SumSeq(SubSeq(xs, 1, Len(xs) - 1)), xs[Len(xs)])

\* The square of Series.std() (ddof=1, NaN skipped): NaN with fewer than 2 values,
\* else sum((r - mean)^2) / (n - 1) = (n * sum(r^2) - sum(r)^2) / (n * (n - 1)).
\* The standard deviation itself is its square root; only its sign and the
\* comparison |r| / std > 3 <=> r^2 > 9 * std^2 are used.
StdSquared(rs) ==
    LET n  == Len(rs)
        s1 == SumSeq(rs)
        s2 == SumSeq([i \in 1..n |-> NumMul(rs[i], rs[i])])
        v  == NumSub(NumMul(Num(n, 1), s2), NumMul(s1, s1))
    IN  IF n < 2 THEN NaN ELSE Num(v.n, v.d * n * (n - 1))

\* variant: a threshold of 2 standard deviations
IsShockThreshold2(residual, stdsq) ==
    IF IsNaN(residual) \/ IsNaN(stdsq) THEN FALSE
    ELSE IF stdsq.n = 0 THEN residual.n # 0
    ELSE NumLt(NumMul(Num(2 * 2, 1), stdsq), NumMul(residual, residual))

\* (residual / std).abs() > 3 for one row, with float division: a NaN residual or a
\* NaN std gives NaN (False); std = 0.0 gives NaN for a zero residual (False) and
\* +-inf otherwise (True)
IsShock(residual, stdsq) ==
    IF IsNaN(residual) \/ IsNaN(stdsq) THEN FALSE
    ELSE IF stdsq.n = 0 THEN residual.n # 0
    ELSE NumLt(NumMul(Num(ShockThreshold * ShockThreshold, 1), stdsq),
               NumMul(residual, residual))

\* shocks = merged[(merged['residual'] / merged['residual'].std()).abs() > 3]
Shocks(merged) ==
    LET stdsq == StdSquared(Residuals(merged))
    IN  SelectSeq(merged, LAMBDA r : IsShock(r.residual, stdsq))

----------------------------------------------------------------------------
(* Tab 1: chart and metrics, app.py:128-188 *)

\* round(n / d) to the nearest integer, ties to even (d > 0)
RoundHalfEven(n, d) ==
    LET q == n \div d
        r == n - q * d
    IN  IF 2 * r < d THEN q
        ELSE IF 2 * r > d THEN q + 1
        ELSE IF q % 2 = 0 THEN q ELSE q + 1

\* f"{x:+.1f}": a number is shown to one decimal, inf and nan as they are
Format1(x) == IF IsNum(x) THEN Num(RoundHalfEven(10 * x.n, x.d), 10) ELSE x

\* ((future_only['yhat_final'].iloc[-1] / last_trend_value) - 1) * 100
PercentChange(last_final, last_trend_value) ==
    LET q == FDiv(last_final, last_trend_value)
    IN  IF IsNum(q) THEN Num((q.n - q.d) * 100, q.d) ELSE q

\* the "Forecast Trend" metric (line 187)
ForecastTrendMetric(future_final, last_trend_value) ==
    IF future_final # <<>>
    THEN [text |-> "percent",
          value |-> Format1(PercentChange(future_final[Len(future_final)].yhat_final,
                                          last_trend_value))]
    ELSE [text |-> "N/A", value |-> NaN]

\* forecast_connected['ds'].max(): NaN on the empty frame
MaxDsOrNaN(fc) == IF fc = <<>> THEN NaN ELSE Int2Num(MaxDs(fc))

\* the traces added to fig (lines 129-155)
Figure(df, forecast_connected, rolling_mean, shocks) ==
    [confidence_band |-> forecast_connected # <<>>,
     historical_trend |-> [i \in 1..Len(df) |-> df[i].Trend7D],
     prophet_forecast |-> forecast_connected # <<>>,
     rolling_baseline |->
        [x |-> <<Int2Num(df[Len(df)].ds), MaxDsOrNaN(forecast_connected)>>,
         y |-> <<rolling_mean, rolling_mean>>],
     detected_shocks |-> shocks # <<>>]

\* The values of the forecasting panel once the revenue query has returned `rows`
\* (lines 69-188).  outcome: "stop" (st.stop() on the empty result), "raise" (Prophet
\* refused the fit input, caught at line 190) or "ok".
NoTab1 ==
    [outcome |-> "none", df_forecast |-> <<>>, df_model |-> <<>>, forecast |-> <<>>,
     future_only |-> <<>>, forecast_connected |-> <<>>, rolling_mean |-> NaN,
     merged |-> <<>>, shocks |-> <<>>, fig |-> <<>>, metric |-> <<>>]

ForecastPanel(rows, oracle) ==
    IF rows = <<>> THEN [NoTab1 EXCEPT !.outcome = "stop"]
    ELSE
    LET df_forecast == Preprocess(rows)
        df_model == DfModel(df_forecast)
    IN  IF FitRaises(df_model)
        THEN [NoTab1 EXCEPT !.outcome = "raise", !.df_forecast = df_forecast,
                            !.df_model = df_model]
        ELSE
        LET forecast == Predict(df_model, oracle)
            last_actual_ds == df_forecast[Len(df_forecast)].ds
            last_trend_value == LastTrendValue(df_forecast)
            future_only == FutureOnly(forecast, last_actual_ds)
            future_final == IF future_only # <<>>
                            THEN FutureFinal(future_only, last_trend_value) ELSE <<>>
            forecast_connected ==
                ForecastConnected(future_only, last_actual_ds, last_trend_value)
            rolling_mean == RollingBaseline(df_forecast)
            merged == Merged(df_forecast, forecast)
            shocks == Shocks(merged)
        IN  [outcome |-> "ok", df_forecast |-> df_forecast, df_model |-> df_model,
             forecast |-> forecast, future_only |-> future_final,
             forecast_connected |-> forecast_connected,
             rolling_mean |-> rolling_mean, merged |-> merged, shocks |-> shocks,
             fig |-> Figure(df_forecast, forecast_connected, rolling_mean, shocks),
             metric |-> ForecastTrendMetric(future_final, last_trend_value)]

----------------------------------------------------------------------------
(* The store *)

Missing == [exists |-> FALSE, rows |-> 0]
Table(n) == [exists |-> TRUE, rows |-> n]

\* pd.read_sql raises when a table the query names does not exist
QueryRaises(names) == \E t \in names : ~tables[t].exists

\* the result of forecast_query (lines 60-67): no group when a joined table is empty
RevenueQuery ==
    IF tables["orders"].rows = 0 \/ tables["order_items"].rows = 0 THEN <<>> ELSE revenue

Msg(level, text) == [level |-> level, text |-> text]

----------------------------------------------------------------------------
(* main(), app.py:21-324 *)

\* get_connection (lines 13-19) under st.cache_resource, then the store check of
\* lines 24-27.  sqlite3.connect creates the file when its directory exists and
\* raises otherwise; a cached result is returned without connecting again, with the
\* st.error recorded inside the cached call replayed.
StoreCheck ==
    /\ pc = "start"
    /\ LET conn == IF connCache # "unset" THEN connCache
                   ELSE IF dbDir THEN "conn" ELSE "None"
           exists == dbFile \/ (connCache = "unset" /\ dbDir)
           m1 == IF conn = "None"
                 THEN <<Msg("error", "Database Connection Error")>> ELSE <<>>
       IN  /\ connCache' = conn
           /\ dbFile' = exists
           /\ IF conn = "None" \/ ~exists
              THEN /\ msgs' = msgs \o m1 \o <<Msg("error", "Database not found")>>
                   /\ pc' = "fatal"
              ELSE /\ msgs' = msgs \o m1
                   /\ pc' = "kpi"
    /\ UNCHANGED <<dbDir, tables, revenue, m_predict, panels, health, tab1, ingest>>

\* the executive KPI row (lines 29-49)
KpiRow ==
    /\ pc = "kpi"
    /\ msgs' = IF QueryRaises({"order_items", "orders", "reviews"})
               THEN Append(msgs, Msg("warning", "Could not load KPIs")) ELSE msgs
    /\ panels' = panels \cup {"kpi"}
    /\ pc' = "tab1"
    /\ UNCHANGED <<dbDir, dbFile, tables, revenue, m_predict, connCache, health, tab1, ingest>>

\* tab1 (lines 54-191): st.stop() ends the script run, the except clause of line 190
\* reports whatever the query or the fit raised and lets main() go on
Tab1 ==
    /\ pc = "tab1"
    /\ panels' = panels \cup {"forecasting"}
    /\ IF QueryRaises({"orders", "order_items"})
       THEN /\ tab1' = [NoTab1 EXCEPT !.outcome = "raise"]
            /\ msgs' = Append(msgs, Msg("error", "Forecasting Error"))
            /\ pc' = "tab2"
       ELSE LET r == ForecastPanel(RevenueQuery, m_predict)
            IN  /\ tab1' = r
                /\ msgs' = IF r.outcome = "stop"
                           THEN Append(msgs, Msg("warning", "No revenue data available."))
                           ELSE IF r.outcome = "raise"
                           THEN Append(msgs, Msg("error", "Forecasting Error"))
                           ELSE msgs
                /\ pc' = IF r.outcome = "stop" THEN "stopped" ELSE "tab2"
    /\ UNCHANGED <<dbDir, dbFile, tables, revenue, m_predict, connCache, health, ingest>>

\* tab2 (lines 195-209)
Tab2 ==
    /\ pc = "tab2"
    /\ panels' = panels \cup {"logistics"}
    /\ msgs' = IF QueryRaises({"geolocation"})
               THEN Append(msgs, Msg("error", "Logistics Error")) ELSE msgs
    /\ pc' = "tab3"
    /\ UNCHANGED <<dbDir, dbFile, tables, revenue, m_predict, connCache, health, tab1, ingest>>

\* tab3 (lines 212-288); whether a delivered order matches a review is the store's
Tab3 ==
    /\ pc = "tab3"
    /\ panels' = panels \cup {"experience"}
    /\ \E matched \in BOOLEAN :
        msgs' =
            IF QueryRaises({"reviews"})
            THEN Append(msgs, Msg("error", "Critical Experience Tab Error"))
            ELSE IF tables["reviews"].rows = 0
            THEN msgs \o <<Msg("warning", "reviews table is empty"),
                           Msg("info", "ensure the reviews CSV was loaded")>>
            ELSE IF QueryRaises({"orders"})
            THEN Append(msgs, Msg("error", "Critical Experience Tab Error"))
            ELSE IF tables["orders"].rows > 0 /\ matched
            THEN Append(msgs, Msg("success", "Data Insight"))
            ELSE Append(msgs, Msg("info", "No Delivered orders found"))
    /\ pc' = "tab4"
    /\ UNCHANGED <<dbDir, dbFile, tables, revenue, m_predict, connCache, health, tab1, ingest>>

\* variant: a failed COUNT(*) is reported like an empty table
HealthStatusMissingAsEmpty(t) ==
    IF tables[t].exists /\ tables[t].rows > 0
    THEN [Table |-> t, Rows |-> tables[t].rows, Status |-> "Online"]
    ELSE [Table |-> t, Rows |-> 0, Status |-> "Empty (Data Load Failed)"]

\* one pass of the loop of lines 297-310 for table t
HealthStatus(t) ==
    IF ~tables[t].exists
    THEN [Table |-> t, Rows |-> 0, Status |-> "Table Missing"]
    ELSE IF tables[t].rows > 0
    THEN [Table |-> t, Rows |-> tables[t].rows, Status |-> "Online"]
    ELSE [Table |-> t, Rows |-> tables[t].rows, Status |-> "Empty (Data Load Failed)"]

HealthRow ==
    /\ pc = "tab4"
    /\ Len(health) < Len(Tables)
    /\ health' = Append(health, HealthStatus(Tables[Len(health) + 1]))
    /\ UNCHANGED <<dbDir, dbFile, tables, revenue, m_predict, connCache, pc, msgs, panels, tab1, ingest>>

\* st.table(health_df) and the recovery advisory (lines 313-324)
HealthTable ==
    /\ pc = "tab4"
    /\ Len(health) = Len(Tables)
    /\ panels' = panels \cup {"health"}
    /\ msgs' = IF \E i \in 1..Len(health) : health[i].Rows = 0
               THEN msgs \o <<Msg("error", "Critical Data Gap Detected"),
                              Msg("info", "re-run ingest_data.py")>>
               ELSE msgs
    /\ pc' = "done"
    /\ UNCHANGED <<dbDir, dbFile, tables, revenue, m_predict, connCache, health, tab1, ingest>>

\* the next script run: every render starts from scratch, the cached connection stays
Rerun ==
    /\ pc \in {"done", "stopped", "fatal"}
    /\ pc' = "start"
    /\ msgs' = <<>>
    /\ panels' = {}
    /\ health' = <<>>
    /\ tab1' = NoTab1
    /\ UNCHANGED <<dbDir, dbFile, tables, revenue, m_predict, connCache, ingest>>

\* between two renders the store file is removed (what os.path.exists guards, line 25)
StoreRemoved ==
    /\ pc \in {"done", "stopped", "fatal"}
    /\ dbFile
    /\ dbFile' = FALSE
    /\ UNCHANGED <<dbDir, tables, revenue, m_predict, connCache, pc, msgs, panels, health, tab1, ingest>>

----------------------------------------------------------------------------
(* Inputs: what the store holds and what the fitted model predicts *)

MaxTableRows == 1       \* row counts of a table of the store: 0..MaxTableRows
MaxRenderRows == 2      \* revenue rows in the renders of Spec
MaxRows == 3            \* revenue rows in SpecReconcile and SpecWindow
MaxFuture == 2          \* future rows the forecast holds (the code asks for 30)
MaxShockRows == 5       \* revenue rows in SpecShocks
MaxBaselineRows == 15   \* revenue rows in SpecBaseline
MaxMixedRows == 2       \* rows of a geolocation CSV of mixed rows in SpecIngest
MaxGeoRows == 7         \* rows of a geolocation CSV of equal rows in SpecIngest
MaxRuns == 2            \* runs of run_ingestion over the same store in SpecIngest

SeqsUpTo(S, n) == UNION {[1..k -> S] : k \in 0..n}

\* a prediction yhat with the interval yhat -+ w
Tr(yhat, w) ==
    [yhat |-> Int2Num(yhat), yhat_lower |-> Int2Num(yhat - w), yhat_upper |-> Int2Num(yhat + w)]

\* revenue rows on the dates the gaps give, starting on day 1
RECURSIVE DateOf(_, _)
DateOf(gaps, i) == IF i = 1 THEN 1 ELSE DateOf(gaps, i - 1) + gaps[i - 1]

RowsOn(gaps, ys) == [i \in 1..Len(ys) |-> [ds |-> DateOf(gaps, i), y |-> ys[i]]]

\* revenue rows on consecutive days
DailyRows(ys) == [i \in 1..Len(ys) |-> [ds |-> i, y |-> ys[i]]]

\* the predictions a fitted model may give for the fit input of `rows`
OraclesFor(rows, HistTriples, FutureSeqs) ==
    LET nh == Len(DfModel(Preprocess(rows)))
    IN  {[hist |-> h, future |-> f] : h \in [1..nh -> HistTriples], f \in FutureSeqs}

InputsOf(RowSets, HistTriples, FutureSeqs) ==
    UNION {{[revenue |-> r, m_predict |-> o] : o \in OraclesFor(r, HistTriples, FutureSeqs)}
           : r \in RowSets}

TableStates == {Missing} \cup {Table(n) : n \in 0..MaxTableRows}

RenderInputs(maxRows) ==
    InputsOf({DailyRows(ys) : ys \in SeqsUpTo({Int2Num(0), Int2Num(2)}, maxRows)},
             {Tr(0, 0)}, SeqsUpTo({Tr(1, 1)}, 1))

\* up to maxRows days of any amounts (NULL and negative sums included), and series
\* longer than the trend window: 1 a day with one day of 9
ReconcileInputs(maxRows) ==
    InputsOf({DailyRows(ys) : ys \in SeqsUpTo({Int2Num(-2), Int2Num(0), Int2Num(3), NaN}, maxRows)}
                \cup {DailyRows([p \in 1..(TrendWindow + 1) |->
                                    IF p = i THEN Int2Num(9) ELSE Int2Num(1)]) :
                        i \in 1..(TrendWindow + 1)},
             {Tr(0, 0)},
             SeqsUpTo({Tr(-4, 0), Tr(0, 0), Tr(0, 3), Tr(5, 3)}, MaxFuture))

WindowInputs(maxRows) ==
    InputsOf({RowsOn(g, ys) : g \in [1..(maxRows - 1) -> {1, 89, 90, 91}],
                              ys \in SeqsUpTo({Int2Num(1), NaN}, maxRows)},
             {Tr(0, 0)}, {<<Tr(1, 1)>>})

\* the same prediction on every history date
FlatOraclesFor(rows, HistTriples, FutureSeqs) ==
    LET nh == Len(DfModel(Preprocess(rows)))
    IN  {[hist |-> [i \in 1..nh |-> h], future |-> f] : h \in HistTriples, f \in FutureSeqs}

\* amounts of 0, 1 or 100 a day against an in-sample prediction of 0 or 1; the first
\* row may lie outside the fit window, so that it has no prediction
ShockInputs(maxRows) ==
    UNION {{[revenue |-> r, m_predict |-> o] :
                o \in FlatOraclesFor(r, {Tr(0, 0), Tr(1, 0)}, {<<Tr(1, 1)>>})} :
           r \in {RowsOn([i \in 1..maxRows |-> IF i = 1 THEN g ELSE 1], ys) :
                    g \in {1, 100},
                    ys \in SeqsUpTo({Int2Num(0), Int2Num(1), Int2Num(100)}, maxRows)}}

\* amounts of 1 a day with up to two days of 0 or 4, over 12 to maxRows days
BaselineInputs(maxRows) ==
    InputsOf(UNION {{DailyRows([p \in 1..k |-> IF p = i THEN Int2Num(a)
                                               ELSE IF p = j THEN Int2Num(b) ELSE Int2Num(1)]) :
                        i \in 1..k, j \in 1..k, a \in {1, 4}, b \in {0, 1}} :
                    k \in (BaselineWindow - 2)..maxRows},
             {Tr(0, 0)}, {<<Tr(1, 1)>>})

----------------------------------------------------------------------------
(* float64, as the coordinates of scripts/ingest_data.py are computed *)

\* A finite float64 is F64(neg, mag): the number (-1)^neg * mag * 2^-FracBits, where
\* mag is a natural number written as Limbs limbs of LimbBits bits, the lowest first.
\* Every float64 between 2^-55 and 2^12 in magnitude is such a number; NaN is NaN.
LimbBits == 24
Limbs == 5
FracBits == 108
Mantissa == 53

LimbBase == 2 ^ LimbBits

F64(neg, mag) == [k |-> "f64", neg |-> neg, mag |-> mag]
IsF64(x) == x.k = "f64"

BigZero == [i \in 1..Limbs |-> 0]

RECURSIVE AddFrom(_, _, _, _)
AddFrom(a, b, i, carry) ==
    IF i > Limbs THEN <<>>
    ELSE <<(a[i] + b[i] + carry) % LimbBase>>
             \o AddFrom(a, b, i + 1, (a[i] + b[i] + carry) \div LimbBase)

BigAdd(a, b) == AddFrom(a, b, 1, 0)

RECURSIVE SubFrom(_, _, _, _)
SubFrom(a, b, i, borrow) ==
    IF i > Limbs THEN <<>>
    ELSE <<(a[i] - b[i] - borrow + LimbBase) % LimbBase>>
             \o SubFrom(a, b, i + 1, IF a[i] - b[i] - borrow < 0 THEN 1 ELSE 0)

\* a - b, for a >= b
BigSub(a, b) == SubFrom(a, b, 1, 0)

BigLt(a, b) ==
    \E i \in 1..Limbs : a[i] < b[i] /\ \A j \in (i + 1)..Limbs : a[j] = b[j]

\* <<remainder, quotient limbs>> of the limbs 1..i of a, after the remainder rem of
\* the limbs above them, divided by n
RECURSIVE DivFrom(_, _, _, _)
DivFrom(a, n, i, rem) ==
    IF i = 0 THEN <<rem>>
    ELSE Append(DivFrom(a, n, i - 1, (rem * LimbBase + a[i]) % n),
                (rem * LimbBase + a[i]) \div n)

\* the number of bits of a
BitLen(a) ==
    IF a = BigZero THEN 0
    ELSE LET t == CHOOSE i \in 1..Limbs : a[i] # 0 /\ \A j \in (i + 1)..Limbs : a[j] = 0
             w == CHOOSE k \in 1..LimbBits : 2 ^ (k - 1) <= a[t] /\ a[t] < 2 ^ k
         IN  (t - 1) * LimbBits + w

\* bit i of a, the lowest being bit 0
Bit(a, i) == (a[i \div LimbBits + 1] \div 2 ^ (i % LimbBits)) % 2

\* the bits of a below bit d are all 0
LowZero(a, d) ==
    /\ \A j \in 1..(d \div LimbBits) : a[j] = 0
    /\ a[d \div LimbBits + 1] % 2 ^ (d % LimbBits) = 0

\* a with its bits below bit d cleared
Truncated(a, d) ==
    [j \in 1..Limbs |->
        IF j <= d \div LimbBits THEN 0
        ELSE IF j = d \div LimbBits + 1
             THEN (a[j] \div 2 ^ (d % LimbBits)) * 2 ^ (d % LimbBits)
             ELSE a[j]]

Pow2(d) == [j \in 1..Limbs |-> IF j = d \div LimbBits + 1 THEN 2 ^ (d % LimbBits) ELSE 0]

\* the float64 nearest to a + (a fraction of the last bit, when sticky): Mantissa
\* bits are kept, ties go to the even mantissa
Rounded(a, sticky) ==
    LET d == BitLen(a) - Mantissa
    IN  IF d <= 0 THEN a
        ELSE IF Bit(a, d - 1) = 1 /\ (sticky \/ ~LowZero(a, d - 1) \/ Bit(a, d) = 1)
             THEN BigAdd(Truncated(a, d), Pow2(d))
             ELSE Truncated(a, d)

FNeg(x) == IF x.mag = BigZero THEN x ELSE F64(~x.neg, x.mag)

\* x + y in float64
FAdd(x, y) ==
    IF x.neg = y.neg THEN F64(x.neg, Rounded(BigAdd(x.mag, y.mag), FALSE))
    ELSE IF x.mag = y.mag THEN F64(FALSE, BigZero)
    ELSE IF BigLt(x.mag, y.mag) THEN F64(y.neg, Rounded(BigSub(y.mag, x.mag), FALSE))
    ELSE F64(x.neg, Rounded(BigSub(x.mag, y.mag), FALSE))

FSub(x, y) == FAdd(x, FNeg(y))

\* x / n in float64, for a count n >= 1
FDivCount(x, n) ==
    LET rq == DivFrom(x.mag, n, Limbs, 0)
        q == Rounded(SubSeq(rq, 2, Limbs + 1), rq[1] # 0)
    IN  F64(x.neg /\ q # BigZero, q)

\* x <= y
FLe(x, y) ==
    IF x.neg /\ ~y.neg THEN TRUE
    ELSE IF ~x.neg /\ y.neg THEN FALSE
    ELSE IF x.neg THEN ~BigLt(x.mag, y.mag)
    ELSE ~BigLt(y.mag, x.mag)

\* the float64 values of the decimal literals of the model
F2 == F64(FALSE, <<0, 0, 0, 0, 8192>>)                          \* 2.0
F5_27 == F64(FALSE, <<0, 0, 12079104, 15435038, 21585>>)        \* 5.27 = 0x1.5147ae147ae14p+2
Fm33_75 == F64(TRUE, <<0, 0, 0, 0, 138240>>)                    \* -33.75
Fm34 == F64(TRUE, <<0, 0, 0, 0, 139264>>)                       \* -34.0
Fm34_79 == F64(TRUE, <<0, 0, 7380992, 14092861, 142499>>)       \* -34.79 = -0x1.1651eb851eb85p+5
Fm50 == F64(TRUE, <<0, 0, 0, 0, 204800>>)                       \* -50.0
Fm73_99 == F64(TRUE, <<0, 0, 10731520, 671088, 303063>>)        \* -73.99 = -0x1.27f5c28f5c28fp+6
Fm80 == F64(TRUE, <<0, 0, 0, 0, 327680>>)                       \* -80.0

----------------------------------------------------------------------------
(* validate_and_clean_geo, scripts/ingest_data.py:10-30 *)

\* a CSV cell that is not a number
Text == [k |-> "text"]

\* pd.to_numeric(errors='coerce'), lines 13-14: what does not parse becomes NaN
ToNumeric(x) == IF IsF64(x) THEN x ELSE NaN

Coerced(df) ==
    [i \in 1..Len(df) |->
        [df[i] EXCEPT !.geolocation_lat = ToNumeric(@), !.geolocation_lng = ToNumeric(@)]]

\* the bounding box of lines 18-19
LatMax == F5_27
LatMin == Fm33_75
LngMax == Fm34_79
LngMin == Fm73_99

\* the row mask of lines 17-20: every comparison with NaN is False
InBox(r) ==
    /\ IsF64(r.geolocation_lat)
    /\ FLe(r.geolocation_lat, LatMax) /\ FLe(LatMin, r.geolocation_lat)
    /\ IsF64(r.geolocation_lng)
    /\ FLe(r.geolocation_lng, LngMax) /\ FLe(LngMin, r.geolocation_lng)

\* the group keys of groupby, in ascending order (line 23)
GroupKeys(df) ==
    LET S == {df[i].geolocation_zip_code_prefix : i \in 1..Len(df)}
    IN  [i \in 1..Cardinality(S) |-> CHOOSE z \in S : Cardinality({w \in S : w < z}) = i - 1]

Column(df, c) == [i \in 1..Len(df) |-> df[i][c]]

\* the sum pandas' group mean keeps for a group: compensated (Kahan) summation, each
\* operation rounded to float64.  acc is <<sumx, compensation>> after the rows before i.
RECURSIVE KahanFrom(_, _, _)
KahanFrom(xs, i, acc) ==
    IF i > Len(xs) THEN acc[1]
    ELSE KahanFrom(xs, i + 1,
            CHOOSE next \in
                UNION {{<<t, FSub(FSub(t, acc[1]), y)>> : t \in {FAdd(acc[1], y)}}
                       : y \in {FSub(xs[i], acc[2])}} : TRUE)

\* the 'mean' aggregation of lines 24-25: NaN values are skipped, NaN when none is
\* left, else the sum divided by the count
Mean(xs) ==
    LET vs == SelectSeq(xs, IsF64)
    IN  IF vs = <<>> THEN NaN
        ELSE FDivCount(KahanFrom(vs, 1, <<F64(FALSE, BigZero), F64(FALSE, BigZero)>>), Len(vs))

\* groupby(...).agg(...).reset_index(), lines 23-28: one row per key
GroupByAgg(df) ==
    LET keys == GroupKeys(df)
    IN  [i \in 1..Len(keys) |->
            LET g == SelectSeq(df, LAMBDA r : r.geolocation_zip_code_prefix = keys[i])
            IN  [geolocation_zip_code_prefix |-> keys[i],
                 geolocation_lat |-> Mean(Column(g, "geolocation_lat")),
                 geolocation_lng |-> Mean(Column(g, "geolocation_lng")),
                 geolocation_city |-> g[1].geolocation_city,
                 geolocation_state |-> g[1].geolocation_state]]

\* dropna(subset=['geolocation_lat', 'geolocation_lng']), line 30
DropNaCoordinates(df) ==
    SelectSeq(df, LAMBDA r : ~IsNaN(r.geolocation_lat) /\ ~IsNaN(r.geolocation_lng))

validate_and_clean_geo(df) ==
    DropNaCoordinates(GroupByAgg(SelectSeq(Coerced(df), InBox)))

----------------------------------------------------------------------------
(* run_ingestion, scripts/ingest_data.py:32-80 *)

\* files_to_load (lines 46-55), by table name, in the order the loop visits them
files_to_load ==
    <<"customers", "orders", "order_items", "products", "sellers", "payments",
      "reviews", "geolocation">>

\* the tables that get an index on order_id (line 74)
IndexedTables == {"orders", "order_items"}

\* idx_{table_name}_order_id ON {table_name} (order_id), line 75
OrderIdIndex(t) == [name |-> <<"idx", t, "order_id">>, table |-> t, column |-> "order_id"]

\* DataFrame.to_sql(if_exists='replace'), line 70: the table is dropped, and SQLite
\* drops a table's indexes with it, then created again from the frame
ToSqlReplace(ixs, t) == {ix \in ixs : ix.table # t}

\* CREATE INDEX IF NOT EXISTS, line 75: nothing happens when the name is taken
CreateIndexIfNotExists(ixs, ix) ==
    IF \E o \in ixs : o.name = ix.name THEN ixs ELSE ixs \cup {ix}

\* the CSV files a download may lack (os.path.exists, line 60)
OptionalFiles == {"orders", "order_items", "geolocation"}

\* the rows of the geolocation CSV: each row is one of these points, named by its
\* city, under one of two zip-code prefixes
GeoPoints ==
    {<<F2, Fm50, "inside">>,
     <<LatMax, Fm50, "north edge">>,
     <<LatMin, LngMax, "south-east corner">>,
     <<Fm34, Fm50, "south">>,
     <<F2, Fm80, "west">>,
     <<Text, Fm50, "unparsed">>}

GeoRow(zip, point) ==
    [geolocation_zip_code_prefix |-> zip,
     geolocation_lat |-> point[1],
     geolocation_lng |-> point[2],
     geolocation_city |-> point[3],
     geolocation_state |-> zip]

\* the CSVs of up to maxMixed rows of any points and prefixes, and those of up to
\* maxRows rows that repeat one point under one prefix
GeoInputs(maxMixed, maxRows) ==
    {[i \in 1..Len(c) |-> GeoRow(c[i][1], c[i][2])]
        : c \in SeqsUpTo({1, 2} \X GeoPoints, maxMixed)}
    \cup {[i \in 1..n |-> GeoRow(1, pt)] : n \in 1..maxRows, pt \in GeoPoints}

\* pos is the loop's position in files_to_load; stored and indexes are the tables and
\* indexes of the store; geo_csv and geo_df are the frame read from the geolocation
\* CSV in this run and the frame validate_and_clean_geo made of it
NoIngest ==
    [pc |-> "idle", pos |-> 0, runs |-> 0, stored |-> {}, indexes |-> {},
     geo_read |-> FALSE, geo_csv |-> <<>>, geo_df |-> <<>>]

\* lines 33-44: the download, then makedirs and connect create the directory and the file
IngestStart ==
    /\ ingest.pc = "idle"
    /\ ingest.runs < MaxRuns
    /\ \E downloaded \in BOOLEAN :
          IF downloaded
          THEN /\ dbDir' = TRUE
               /\ dbFile' = TRUE
               /\ ingest' = [ingest EXCEPT !.pc = "loop", !.pos = 1, !.runs = @ + 1]
          ELSE /\ ingest' = [ingest EXCEPT !.pc = "returned", !.runs = @ + 1]
               /\ UNCHANGED <<dbDir, dbFile>>
    /\ UNCHANGED <<tables, revenue, m_predict, connCache, pc, msgs, panels, health, tab1>>

\* one iteration of the loop of lines 57-77: the file is read (and cleaned, for
\* geolocation), the table replaced, and the index created on orders and order_items
LoadTable ==
    /\ ingest.pc = "loop"
    /\ ingest.pos <= Len(files_to_load)
    /\ LET table_name == files_to_load[ingest.pos]
       IN  \E exists \in (IF table_name \in OptionalFiles THEN BOOLEAN ELSE {TRUE}) :
           \E csv \in (IF exists /\ table_name = "geolocation"
                       THEN GeoInputs(MaxMixedRows, MaxGeoRows) ELSE {<<>>}) :
              IF ~exists
              THEN /\ ingest' = [ingest EXCEPT !.pos = @ + 1]
                   /\ UNCHANGED tables
              ELSE LET df == validate_and_clean_geo(csv)
                       rows == IF table_name = "geolocation" THEN Len(df) ELSE MaxTableRows
                       replaced == ToSqlReplace(ingest.indexes, table_name)
                       ixs == IF table_name \in IndexedTables
                              THEN CreateIndexIfNotExists(replaced, OrderIdIndex(table_name))
                              ELSE replaced
                   IN  /\ tables' = IF table_name \in DOMAIN tables
                                    THEN [tables EXCEPT ![table_name] = Table(rows)]
                                    ELSE tables
                       /\ ingest' =
                            [ingest EXCEPT
                               !.pos = @ + 1,
                               !.stored = @ \cup {table_name},
                               !.indexes = ixs,
                               !.geo_read = @ \/ table_name = "geolocation",
                               !.geo_csv = IF table_name = "geolocation" THEN csv ELSE @,
                               !.geo_df = IF table_name = "geolocation" THEN df ELSE @]
    /\ UNCHANGED <<dbDir, dbFile, revenue, m_predict, connCache, pc, msgs, panels, health, tab1>>

\* lines 79-80: the loop is over, the connection is closed
IngestClose ==
    /\ ingest.pc = "loop"
    /\ ingest.pos > Len(files_to_load)
    /\ ingest' = [ingest EXCEPT !.pc = "complete"]
    /\ UNCHANGED <<dbDir, dbFile, tables, revenue, m_predict, connCache, pc, msgs, panels,
                   health, tab1>>

\* the script is run again over the store the earlier run left; the frames it read
\* are gone with the process
IngestAgain ==
    /\ ingest.pc \in {"complete", "returned"}
    /\ ingest.runs < MaxRuns
    /\ ingest' = [ingest EXCEPT !.pc = "idle", !.pos = 0, !.geo_read = FALSE,
                                 !.geo_csv = <<>>, !.geo_df = <<>>]
    /\ UNCHANGED <<dbDir, dbFile, tables, revenue, m_predict, connCache, pc, msgs, panels,
                   health, tab1>>

----------------------------------------------------------------------------
(* Specifications *)

\* a render of the dashboard, from the script's first line
Init ==
    /\ dbDir \in BOOLEAN
    /\ dbFile \in BOOLEAN
    /\ dbFile => dbDir
    /\ tables \in [{Tables[i] : i \in 1..Len(Tables)} -> TableStates]
    /\ ~dbFile => \A i \in 1..Len(Tables) : tables[Tables[i]] = Missing
    /\ \E inp \in RenderInputs(MaxRenderRows) : revenue = inp.revenue /\ m_predict = inp.m_predict
    /\ (tables["orders"].rows = 0 \/ tables["order_items"].rows = 0)
            => revenue = <<>> /\ m_predict.future = <<>>
    /\ connCache = "unset"
    /\ pc = "start"
    /\ msgs = <<>>
    /\ panels = {}
    /\ health = <<>>
    /\ tab1 = NoTab1
    /\ ingest = NoIngest

Next ==
    \/ StoreCheck
    \/ KpiRow
    \/ Tab1
    \/ Tab2
    \/ Tab3
    \/ HealthRow
    \/ HealthTable
    \/ Rerun
    \/ StoreRemoved

Spec == Init /\ [][Next]_vars

\* the forecasting panel alone, entered with the store reachable, every table loaded
\* and the KPI row drawn
InitPanel(inputs) ==
    /\ dbDir = TRUE
    /\ dbFile = TRUE
    /\ tables = [t \in {Tables[i] : i \in 1..Len(Tables)} |-> Table(1)]
    /\ \E inp \in inputs : revenue = inp.revenue /\ m_predict = inp.m_predict
    /\ connCache = "conn"
    /\ pc = "tab1"
    /\ msgs = <<>>
    /\ panels = {"kpi"}
    /\ health = <<>>
    /\ tab1 = NoTab1
    /\ ingest = NoIngest

InitReconcile == InitPanel(ReconcileInputs(MaxRows))
InitWindow == InitPanel(WindowInputs(MaxRows))
InitShocks == InitPanel(ShockInputs(MaxShockRows))
InitBaseline == InitPanel(BaselineInputs(MaxBaselineRows))

SpecReconcile == InitReconcile /\ [][Tab1]_vars
SpecWindow == InitWindow /\ [][Tab1]_vars
SpecShocks == InitShocks /\ [][Tab1]_vars
SpecBaseline == InitBaseline /\ [][Tab1]_vars

\* the ingestion script, started with no store; the dashboard is not rendering
InitIngest ==
    /\ dbDir \in BOOLEAN
    /\ dbFile = FALSE
    /\ tables = [t \in {Tables[i] : i \in 1..Len(Tables)} |-> Missing]
    /\ revenue = <<>>
    /\ m_predict = [hist |-> <<>>, future |-> <<>>]
    /\ connCache = "unset"
    /\ pc = "start"
    /\ msgs = <<>>
    /\ panels = {}
    /\ health = <<>>
    /\ tab1 = NoTab1
    /\ ingest = NoIngest

NextIngest ==
    \/ IngestStart
    \/ LoadTable
    \/ IngestClose
    \/ IngestAgain

SpecIngest == InitIngest /\ [][NextIngest]_vars

----------------------------------------------------------------------------
(* Claims *)

Df == tab1.df_forecast
Fc == tab1.forecast_connected
LastDs == Df[Len(Df)].ds

\* sum of the amounts of the last k rows of df (amounts are whole numbers here)
RECURSIVE TailSum(_, _)
TailSum(df, k) == IF k = 0 THEN 0 ELSE df[Len(df) - k + 1].y.n + TailSum(df, k - 1)

ErrorCount == Cardinality({i \in 1..Len(msgs) : msgs[i].level = "error"})

\* C1: in every finished render with the store reachable, the logistics, experience
\* and health panels are rendered and the health panel holds a status row for each
\* of the five tables, whatever happened in the forecasting panel.
C1_PanelsIsolated ==
    pc \in {"done", "stopped"} =>
        /\ {"logistics", "experience", "health"} \subseteq panels
        /\ Len(health) = Len(Tables)

\* C2: no value of forecast_connected (yhat_final, yhat_lower_final,
\* yhat_upper_final) is negative, for any revenue series and forecast.
C2_NeverNegative ==
    tab1.outcome = "ok" =>
        \A i \in 1..Len(Fc) :
            /\ Fc[i].yhat_final.n >= 0
            /\ Fc[i].yhat_lower_final.n >= 0
            /\ Fc[i].yhat_upper_final.n >= 0

C4_NoShockOnDegenerateStd ==
    (/\ tab1.outcome = "ok"
     /\ LET v == StdSquared(Residuals(tab1.merged)) IN IsNaN(v) \/ v.n = 0) =>
        tab1.shocks = <<>>

\* the residuals of the panel are exactly 1, 1, 1, 1, 100
C5_Residuals ==
    /\ tab1.outcome = "ok"
    /\ LET rs == Residuals(tab1.merged)
       IN  /\ Len(rs) = 5
           /\ \A i \in 1..4 : NumEq(rs[i], Int2Num(1))
           /\ NumEq(rs[5], Int2Num(100))

\* C5 as stated: for the residuals [1, 1, 1, 1, 100] the date whose residual is 100
\* is flagged and no other.
C5_HundredFlagged ==
    C5_Residuals =>
        /\ Len(tab1.shocks) = 1
        /\ NumEq(tab1.shocks[1].residual, Int2Num(100))

\* C5 amended: for the residuals [1, 1, 1, 1, 100] no date is flagged (the sample
\* standard deviation is about 44.27, and 100 / 44.27 does not exceed 3).
C5_NothingFlagged == C5_Residuals => tab1.shocks = <<>>

C5_Witness == C5_Residuals /\ tab1.shocks = <<>>

C7_FitInputIs90Days ==
    (tab1.outcome \in {"ok", "raise"} /\ Df # <<>>) =>
        {tab1.df_model[i].ds : i \in 1..Len(tab1.df_model)} =
            {Df[i].ds : i \in {j \in 1..Len(Df) :
                                Df[j].ds > LastDs - CutoffDays /\ Df[j].ds <= LastDs}}

\* a forecast was made and none of its rows is dated after the last observed date
C8_NoFuture ==
    /\ pc # "tab1"
    /\ tab1.forecast # <<>>
    /\ \A j \in 1..Len(tab1.forecast) : tab1.forecast[j].ds <= LastDs

\* C8: if the future-only subset is empty, forecast_connected is empty, the Forecast
\* Trend metric shows N/A and the panel completes without raising.
C8_EmptyFuture ==
    C8_NoFuture =>
        /\ tab1.outcome = "ok"
        /\ Fc = <<>>
        /\ ~tab1.fig.prophet_forecast
        /\ tab1.metric.text = "N/A"
        /\ ErrorCount = 0

C8_Witness == C8_NoFuture /\ tab1.metric.text = "N/A"

\* C9: a render that ends at the store check reports exactly one error and renders
\* no panel.
C9_FatalReportedOnce == pc = "fatal" => (Len(msgs) = 1 /\ panels = {})

\* C10: every row of the health list is the row of its table, with the status the
\* table's state alone decides (Online: exists with rows; Empty: exists without rows;
\* Table Missing: does not exist), and the health table holds one row per table.
C10_HealthStatus ==
    /\ \A i \in 1..Len(health) :
        LET t == tables[Tables[i]]
            st == health[i].Status
        IN  /\ health[i].Table = Tables[i]
            /\ st \in {"Online", "Empty (Data Load Failed)", "Table Missing"}
            /\ st = "Online" <=> (t.exists /\ t.rows >= 1)
            /\ st = "Empty (Data Load Failed)" <=> (t.exists /\ t.rows = 0)
            /\ st = "Table Missing" <=> ~t.exists
    /\ "health" \in panels => Len(health) = Len(Tables)

\* C10's case: a finished health panel over a missing, an empty and a loaded table
C10_Witness ==
    /\ pc = "done"
    /\ ~tables["orders"].exists
    /\ tables["customers"].exists /\ tables["customers"].rows = 0
    /\ tables["reviews"].rows > 0
    /\ Len(health) = Len(Tables)

\* the latitude and longitude of a row are numbers inside the box
\* [-33.75, 5.27] x [-73.99, -34.79]
RowInBox(r) ==
    /\ r.geolocation_lat.k = "f64"
    /\ FLe(Fm33_75, r.geolocation_lat) /\ FLe(r.geolocation_lat, F5_27)
    /\ r.geolocation_lng.k = "f64"
    /\ FLe(Fm73_99, r.geolocation_lng) /\ FLe(r.geolocation_lng, Fm34_79)

\* the rows of the geolocation CSV with prefix z and coordinates inside the box
GeoSources(z) ==
    {i \in 1..Len(ingest.geo_csv) :
        /\ ingest.geo_csv[i].geolocation_zip_code_prefix = z
        /\ RowInBox(ingest.geo_csv[i])}

\* C11: once run_ingestion has cleaned the geolocation CSV, every row of the cleaned
\* frame has its latitude in [-33.75, 5.27] and its longitude in [-73.99, -34.79].
C11_RowsInsideBox ==
    ingest.geo_read => \A i \in 1..Len(ingest.geo_df) : RowInBox(ingest.geo_df[i])

\* the cleaned frame has at most one row per zip-code prefix, and a prefix has a
\* row exactly when the CSV holds a row of it inside the box
GeoOnePerPrefix ==
    ingest.geo_read =>
        LET out == ingest.geo_df
        IN  /\ \A i, j \in 1..Len(out) :
                  i # j => out[i].geolocation_zip_code_prefix # out[j].geolocation_zip_code_prefix
            /\ \A i \in 1..Len(out) : GeoSources(out[i].geolocation_zip_code_prefix) # {}
            /\ \A k \in 1..Len(ingest.geo_csv) :
                  RowInBox(ingest.geo_csv[k]) =>
                      \E i \in 1..Len(out) :
                          out[i].geolocation_zip_code_prefix =
                              ingest.geo_csv[k].geolocation_zip_code_prefix

\* whenever orders or order_items is in the store, the store holds an index on its
\* order_id, in the first run and in every later run over the same store
OrderIdIndexed ==
    \A t \in {"orders", "order_items"} :
        t \in ingest.stored =>
            \E ix \in ingest.indexes : ix.table = t /\ ix.column = "order_id"

====
